---- MODULE Spec2Model ----
(***************************************************************************)
(* Model of the YoutubeKnowledgeSync server: the channel resolver of       *)
(* server/services/youtube.ts, the channel routes of server/routes.ts and  *)
(* the storage layer of server/storage.ts with the schema of               *)
(* shared/schema.ts.                                                       *)
(*                                                                         *)
(* Strings are sequences of one-character strings, so that the regular     *)
(* expressions, toLowerCase, includes and === of the source are computed   *)
(* rather than assumed.  The character "U+D55C" stands for the Hangul      *)
(* syllable of that code point (a Unicode letter outside ASCII).           *)
(***************************************************************************)
EXTENDS Naturals, Sequences, FiniteSets, TLC

(***************************************************************************)
(* Bounds of the model.                                                    *)
(***************************************************************************)
\* longest name / handle / identifier segment of an input URL
MaxNameLen == 2
\* most candidates in one search response
MaxItems == 2
\* resolver calls made in succession on one URL
MaxCalls == 2
\* most videos in one answer of getLatestVideos
MaxVideos == 1
\* requests the server serves
MaxReq == 2

(***************************************************************************)
(* Characters and strings.                                                 *)
(***************************************************************************)
LowerLetters == {"a", "b", "c", "e", "h", "l", "m", "n", "o", "p", "r", "s", "t", "u", "v", "w", "x", "y"}
UpperLetters == {"A", "B", "C", "U", "X"}
Digits == {"1", "7"}

\* String.prototype.toLowerCase on one character
toLowerChar(ch) ==
  CASE ch = "A" -> "a"
    [] ch = "B" -> "b"
    [] ch = "C" -> "c"
    [] ch = "U" -> "u"
    [] ch = "X" -> "x"
    [] OTHER -> ch

\* String.prototype.toLowerCase
toLowerCase(s) == [i \in 1..Len(s) |-> toLowerChar(s[i])]

\* whether lit occurs in s starting at position i
OccursAt(s, lit, i) ==
  /\ i >= 1
  /\ i + Len(lit) - 1 <= Len(s)
  /\ \A k \in 1..Len(lit) : s[i + k - 1] = lit[k]

\* String.prototype.includes
includes(s, lit) == \E i \in 1..(Len(s) + 1) : OccursAt(s, lit, i)

Min(S) == CHOOSE m \in S : \A n \in S : m <= n
Max(S) == CHOOSE m \in S : \A n \in S : m >= n

\* the value null (also what a failed String.match returns)
Null == <<"null">>

(***************************************************************************)
(* extractChannelId: the four patterns.                                    *)
(***************************************************************************)
\* [a-zA-Z0-9_-]
ChannelIdClass == LowerLetters \cup UpperLetters \cup Digits \cup {"_", "-"}
\* [a-zA-Z0-9_.-]
NameClass == LowerLetters \cup UpperLetters \cup Digits \cup {"_", ".", "-"}

LitHost == <<"y", "o", "u", "t", "u", "b", "e", ".", "c", "o", "m", "/">>
LitChannel == LitHost \o <<"c", "h", "a", "n", "n", "e", "l", "/">>
LitHandle == LitHost \o <<"@">>
LitC == LitHost \o <<"c", "/">>
LitUser == LitHost \o <<"u", "s", "e", "r", "/">>

\* the patterns array, in order
patterns ==
  << [lit |-> LitChannel, class |-> ChannelIdClass, isChannelId |-> TRUE,  shape |-> "channel"],
     [lit |-> LitHandle,  class |-> NameClass,      isChannelId |-> FALSE, shape |-> "handle"],
     [lit |-> LitC,       class |-> NameClass,      isChannelId |-> FALSE, shape |-> "c"],
     [lit |-> LitUser,    class |-> NameClass,      isChannelId |-> FALSE, shape |-> "user"] >>

\* url.match(/<lit>(<class>+)/): the capture group of the leftmost match, the
\* longest run of class characters after the literal; Null when nothing matches
match(s, lit, class) ==
  LET starts == {i \in 1..Len(s) :
                   /\ OccursAt(s, lit, i)
                   /\ i + Len(lit) <= Len(s)
                   /\ s[i + Len(lit)] \in class}
  IN IF starts = {} THEN Null
     ELSE LET b == Min(starts) + Len(lit)
              e == Max({j \in b..Len(s) : \A k \in b..j : s[k] \in class})
          IN SubSeq(s, b, e)

\* the first pattern of the array that matches url (0: none): the for loop
firstPattern(u) ==
  LET hits == {i \in 1..Len(patterns) : match(u, patterns[i].lit, patterns[i].class) # Null}
  IN IF hits = {} THEN 0 ELSE Min(hits)

(***************************************************************************)
(* Inputs: the URLs a client may submit, built from their parts so that a  *)
(* property can name the segment a URL was written with.                   *)
(***************************************************************************)
Scheme == <<"h", "t", "t", "p", "s", ":", "/", "/">>
OtherHost == <<"x", ".", "c", "o", "m", "/">>
Hosts == {LitHost, OtherHost}
MarkChannel == <<"c", "h", "a", "n", "n", "e", "l", "/">>
MarkHandle == <<"@">>
MarkC == <<"c", "/">>
MarkUser == <<"u", "s", "e", "r", "/">>
MarkWatch == <<"w", "a", "t", "c", "h", "?", "v", "=">>
Markers == {MarkChannel, MarkHandle, MarkC, MarkUser, MarkWatch}
\* characters of a segment: ASCII letters, a digit, "_", "-", ".", a Hangul syllable
SegmentChars == {"a", "B", "7", "_", "-", ".", "U+D55C"}
Suffixes == {<<>>, <<"/", "v">>}

SeqsUpTo(S, n) == UNION {[1..k -> S] : k \in 0..n}
Segments == SeqsUpTo(SegmentChars, MaxNameLen)

UrlParts == [host : Hosts, marker : Markers, name : Segments, suffix : Suffixes]
UrlOf(p) == Scheme \o p.host \o p.marker \o p.name \o p.suffix

\* z.string().url(): the text parses as a URL (here: it has a scheme)
isUrl(s) == OccursAt(s, Scheme, 1)

(***************************************************************************)
(* State.                                                                  *)
(***************************************************************************)
VARIABLES
  req,          \* the requests being served, by slot
  dbChannels,   \* table channels (DatabaseStorage)
  dbVideos,     \* table videos
  dbSummaries,  \* table summaries
  dbSerial,     \* the serial id sequences of the three tables
  mem,          \* a MemStorage: its three maps and its three counters
  call,         \* the last call made on the storage interface, with its results
  progressStore,\* the map progressStore of the routes: progressId -> entry
  task,         \* the summary requests and their background tasks, by progressId
  fanout,       \* the request POST /api/channels/fetch-all-videos being served
  exports,      \* the requests GET /api/export/:summaryId, by arrival
  obsidianMCP,  \* whether the module variable obsidianMCP holds a service
  startup       \* registerRoutes up to the registration of the routes

vars ==
  <<req, dbChannels, dbVideos, dbSummaries, dbSerial, mem, call, progressStore, task,
    fanout, exports, obsidianMCP, startup>>
dbVars == <<dbChannels, dbVideos, dbSummaries, dbSerial>>
\* the state of the summary tasks
taskVars == <<progressStore, task>>
\* what the routes of the server leave alone
others == <<mem, call, progressStore, task, fanout, exports, obsidianMCP, startup>>
\* the state of the fan-out and of the export route
routeVars == <<fanout, exports, obsidianMCP, startup>>

\* new MemStorage()
EmptyMem ==
  [channels |-> {}, videos |-> {}, summaries |-> {},
   currentChannelId |-> 1, currentVideoId |-> 1, currentSummaryId |-> 1]
NoCall == [op |-> "none", id |-> 0, mem |-> FALSE, db |-> FALSE]

\* progressItem before it is built, and a progressId no request has drawn
\* (endTime: whether the item has one)
NoItem == [status |-> "none", progress |-> 0, error |-> "", endTime |-> FALSE]
IdleTask ==
  [route |-> "none", pc |-> "idle", videoId |-> 0, existing |-> 0,
   progressItem |-> NoItem, aborted |-> FALSE, aiSummary |-> "none",
   status |-> 0, abortedIn |-> "none", llm |-> "none", deleted |-> FALSE]
\* new Map(): no entry, no request
NoTasks ==
  /\ progressStore = <<>>
  /\ task = [p \in {} |-> IdleTask]

\* no fan-out is being served, no export was asked for, obsidianMCP is null
NoFanout ==
  [pc |-> "idle", channels |-> {}, results |-> <<>>, threw |-> {}, status |-> 0,
   body |-> "none", successCount |-> 0, errorCount |-> 0, totalChannels |-> 0]
\* registerRoutes before initializeObsidianMCP is called (apiKey: whether
\* OBSIDIAN_API_KEY is set; connect: how the connection test ended), and
\* after the routes are registered on a server started without the key
Booting == [pc |-> "boot", apiKey |-> FALSE, connect |-> "none"]
Listening == [pc |-> "listening", apiKey |-> FALSE, connect |-> "none"]
NoRoutes ==
  /\ fanout = NoFanout
  /\ exports = <<>>
  /\ obsidianMCP = FALSE
  /\ startup = Listening

\* a slot that serves no request
IdleReq ==
  [route |-> "none", pc |-> "idle", parts |-> <<>>, url |-> <<>>,
   username |-> Null, traced |-> TRUE, requests |-> <<>>, answers |-> <<>>, inflight |-> 0,
   extracted |-> Null, items |-> <<>>, results |-> <<>>,
   info |-> [kind |-> "none", channelId |-> Null, message |-> ""],
   channel |-> 0, pending |-> <<>>, fetchError |-> FALSE,
   status |-> 0, message |-> ""]

Set(r, new) == req' = [req EXCEPT ![r] = new]

\* requests take the free slots in order
Free(r) == req[r].route = "none" /\ \A k \in DOMAIN req : k < r => req[k].route # "none"
\* a request arrives at a free slot (the slot keeps whether it is traced)
Arrive(r, route, pc) == [IdleReq EXCEPT !.route = route, !.pc = pc, !.traced = req[r].traced]

\* fetch(...): one more request issued and in flight; a traced slot logs it
Fetch(q, what) ==
  [q EXCEPT !.requests = IF q.traced THEN Append(@, what) ELSE @, !.inflight = @ + 1]
\* await fetch(...) resumed with an answer of the given outcome
Answered(q, outcome) ==
  [q EXCEPT !.answers = IF q.traced THEN Append(@, outcome) ELSE @, !.inflight = @ - 1]

(***************************************************************************)
(* extractChannelId, up to its first await or its return.                  *)
(***************************************************************************)
\* a variant that hands every captured group to the lookup, isChannelId or not
extractChannelIdMutant(r) ==
  /\ req[r].pc = "start"
  /\ LET q == req[r]
         p == firstPattern(q.url)
     IN IF p = 0
        THEN Set(r, [q EXCEPT !.pc = "extracted", !.extracted = Null])
        ELSE LET identifier == match(q.url, patterns[p].lit, patterns[p].class)
             IN Set(r, [Fetch(q, "forUsername") EXCEPT !.pc = "tier1", !.username = identifier])
  /\ UNCHANGED <<dbVars, others>>

extractChannelId(r) ==
  /\ req[r].pc = "start"
  /\ LET q == req[r]
         p == firstPattern(q.url)
     IN IF p = 0
        THEN Set(r, [q EXCEPT !.pc = "extracted", !.extracted = Null])
        ELSE LET identifier == match(q.url, patterns[p].lit, patterns[p].class)
             IN IF patterns[p].isChannelId
                THEN Set(r, [q EXCEPT !.pc = "extracted", !.extracted = identifier])
                ELSE Set(r, [Fetch(q, "forUsername") EXCEPT !.pc = "tier1", !.username = identifier])
  /\ UNCHANGED <<dbVars, others>>

\* the caller takes the returned identifier and calls again with the same URL
extractChannelIdAgain(r) ==
  /\ req[r].pc = "extracted"
  /\ Len(req[r].results) < MaxCalls
  /\ Set(r, [req[r] EXCEPT !.pc = "start", !.results = Append(@, req[r].extracted)])
  /\ UNCHANGED <<dbVars, others>>

(***************************************************************************)
(* getChannelInfo after extractChannelId has returned.                     *)
(***************************************************************************)
InvalidUrlMessage == "invalid channel URL"
ApiErrorMessage == "YouTube API error"
FetchFailedMessage == "fetch failed"

\* getChannelInfo, from its call of extractChannelId to its fetch
\* a variant without the test of a null channelId
getChannelInfoMutant(r) ==
  /\ req[r].pc = "extracted"
  /\ Set(r, [Fetch(req[r], "channelsById") EXCEPT !.pc = "info"])
  /\ UNCHANGED <<dbVars, others>>

getChannelInfo(r) ==
  /\ req[r].pc = "extracted"
  /\ LET q == req[r]
     IN IF q.extracted = Null
        THEN Set(r, [q EXCEPT !.pc = "infoDone",
                              !.info = [kind |-> "throw", channelId |-> Null,
                                        message |-> InvalidUrlMessage]])
        ELSE Set(r, [Fetch(q, "channelsById") EXCEPT !.pc = "info"])
  /\ UNCHANGED <<dbVars, others>>

(***************************************************************************)
(* Answers of the upstream API.                                            *)
(***************************************************************************)
DigitChar == <<"1", "2", "3", "4", "5", "6", "7", "8", "9">>
\* the channel identifier of the i-th candidate of a search response
IdAt(i) == <<"U", "C", DigitChar[i]>>
\* the identifier the legacy-username lookup knows, and the un-prefixed search
LegacyId == <<"U", "C", "a">>
FallbackId == <<"U", "C", "b">>

\* the other case of a letter (to write the same handle in another case)
FlipCase(s) ==
  [i \in 1..Len(s) |->
     CASE s[i] = "a" -> "A" [] s[i] = "A" -> "a"
       [] s[i] = "b" -> "B" [] s[i] = "B" -> "b"
       [] OTHER -> s[i]]

\* snippets a search for "@<u>" may return: customUrl absent, the handle in
\* another case, a longer handle that contains it, an unrelated handle;
\* title the name in another case, or unrelated
CustomUrls(u) == {<<>>, <<"@">> \o FlipCase(u), <<"@">> \o u \o <<"7">>, <<"@", "x">>}
Titles(u) == {FlipCase(u), <<"x">>}
Snippets(u) == [customUrl : CustomUrls(u), title : Titles(u)]

\* the item lists of at most n candidates; the i-th has channelId IdAt(i)
SearchItems(u, n) ==
  UNION {{[i \in 1..k |-> [channelId |-> IdAt(i), customUrl |-> f[i].customUrl,
                            title |-> f[i].title]] : f \in [1..k -> Snippets(u)]}
         : k \in 0..n}

\* an answer: the fetch throws, answers a non-success status, or answers 200
\* with a list of items
Answer(kind, items) == [kind |-> kind, items |-> items]
Failures == {Answer("throw", <<>>), Answer("status", <<>>)}
LookupAnswers == Failures \cup {Answer("ok", <<>>), Answer("ok", <<[id |-> LegacyId]>>)}
SearchAnswers(u, n) == Failures \cup {Answer("ok", items) : items \in SearchItems(u, n)}
FallbackAnswers ==
  Failures \cup {Answer("ok", <<>>), Answer("ok", <<[channelId |-> FallbackId]>>)}

\* what an answer is logged as
OutcomeOf(a) ==
  CASE a.kind = "throw" -> "throw"
    [] a.kind = "status" -> "status"
    [] a.items = <<>> -> "empty"
    [] OTHER -> "found"

(***************************************************************************)
(* resolveUsernameToChannelId.                                             *)
(***************************************************************************)
\* the three tests made on one item of the "@<username>" search
exactCustomUrl(item, username) ==
  toLowerCase(item.customUrl) = <<"@">> \o toLowerCase(username)
containsHandle(item, username) ==
  includes(toLowerCase(item.customUrl), <<"@">> \o toLowerCase(username))
titleEquals(item, username) ==
  toLowerCase(item.title) = toLowerCase(username)

\* the loop over data.items and the return after it: the first item that
\* passes one of the three tests, else the first item
\* a variant that falls back to the last item
pickItemLast(items, username) ==
  LET hits == {i \in 1..Len(items) :
                 \/ exactCustomUrl(items[i], username)
                 \/ containsHandle(items[i], username)
                 \/ titleEquals(items[i], username)}
  IN IF hits = {} THEN items[Len(items)].channelId ELSE items[Min(hits)].channelId

pickItem(items, username) ==
  LET hits == {i \in 1..Len(items) :
                 \/ exactCustomUrl(items[i], username)
                 \/ containsHandle(items[i], username)
                 \/ titleEquals(items[i], username)}
  IN IF hits = {} THEN items[1].channelId ELSE items[Min(hits)].channelId

\* the answer of channels?forUsername= arrives
\* a variant whose catch is around the whole lookup no more: a fetch that
\* throws is taken as a failed tier and the next tier is tried
resolveForUsernameMutant(r, answers) ==
  /\ req[r].pc = "tier1"
  /\ \E a \in answers :
       LET q == Answered(req[r], OutcomeOf(a))
       IN IF a.kind = "ok" /\ Len(a.items) > 0
          THEN Set(r, [q EXCEPT !.pc = "extracted", !.extracted = a.items[1].id])
          ELSE Set(r, [Fetch(q, "searchAt") EXCEPT !.pc = "tier2"])
  /\ UNCHANGED <<dbVars, others>>

resolveForUsername(r, answers) ==
  /\ req[r].pc = "tier1"
  /\ \E a \in answers :
       LET q == Answered(req[r], OutcomeOf(a))
       IN IF a.kind = "throw"
          THEN Set(r, [q EXCEPT !.pc = "extracted", !.extracted = Null])
          ELSE IF a.kind = "ok" /\ Len(a.items) > 0
          THEN Set(r, [q EXCEPT !.pc = "extracted", !.extracted = a.items[1].id])
          ELSE Set(r, [Fetch(q, "searchAt") EXCEPT !.pc = "tier2"])
  /\ UNCHANGED <<dbVars, others>>

\* the answer of search?q=@<username> arrives (at most n items)
\* a variant that goes on to the un-prefixed search whatever the items
resolveSearchAtMutant(r, n) ==
  /\ req[r].pc = "tier2"
  /\ \E a \in SearchAnswers(req[r].username, n) :
       LET q == Answered(req[r], OutcomeOf(a))
       IN IF a.kind = "throw"
          THEN Set(r, [q EXCEPT !.pc = "extracted", !.extracted = Null])
          ELSE Set(r, [Fetch(q, "search") EXCEPT !.pc = "tier3"])
  /\ UNCHANGED <<dbVars, others>>

resolveSearchAt(r, n) ==
  /\ req[r].pc = "tier2"
  /\ \E a \in SearchAnswers(req[r].username, n) :
       LET q == Answered(req[r], OutcomeOf(a))
       IN IF a.kind = "throw"
          THEN Set(r, [q EXCEPT !.pc = "extracted", !.extracted = Null])
          ELSE IF a.kind = "ok" /\ Len(a.items) > 0
          THEN Set(r, [q EXCEPT !.pc = "extracted",
                                !.extracted = pickItem(a.items, q.username),
                                !.items = IF q.traced THEN a.items ELSE <<>>])
          ELSE Set(r, [Fetch(q, "search") EXCEPT !.pc = "tier3"])
  /\ UNCHANGED <<dbVars, others>>

\* the answer of search?q=<username> arrives
resolveSearch(r, answers) ==
  /\ req[r].pc = "tier3"
  /\ \E a \in answers :
       LET q == Answered(req[r], OutcomeOf(a))
       IN IF a.kind = "ok" /\ Len(a.items) > 0
          THEN Set(r, [q EXCEPT !.pc = "extracted", !.extracted = a.items[1].channelId])
          ELSE Set(r, [q EXCEPT !.pc = "extracted", !.extracted = Null])
  /\ UNCHANGED <<dbVars, others>>

\* the answer of channels?id=<channelId> arrives
NotFoundInfo == [kind |-> "null", channelId |-> Null, message |-> ""]
getChannelInfoAnswer(r) ==
  /\ req[r].pc = "info"
  /\ \E a \in Failures \cup {Answer("ok", <<>>), Answer("ok", <<[id |-> req[r].extracted]>>)} :
       LET q == Answered(req[r], OutcomeOf(a))
       IN IF a.kind = "throw"
          THEN Set(r, [q EXCEPT !.pc = "infoDone",
                                !.info = [kind |-> "throw", channelId |-> Null,
                                          message |-> FetchFailedMessage]])
          ELSE IF a.kind = "status"
          THEN Set(r, [q EXCEPT !.pc = "infoDone",
                                !.info = [kind |-> "throw", channelId |-> Null,
                                          message |-> ApiErrorMessage]])
          ELSE IF a.items = <<>>
          THEN Set(r, [q EXCEPT !.pc = "infoDone", !.info = NotFoundInfo])
          ELSE Set(r, [q EXCEPT !.pc = "infoDone",
                                !.info = [kind |-> "value", channelId |-> a.items[1].id,
                                          message |-> ""]])
  /\ UNCHANGED <<dbVars, others>>

(***************************************************************************)
(* DatabaseStorage over the tables of shared/schema.ts.  A statement that  *)
(* breaks a constraint throws and changes no row; the serial it drew is    *)
(* not given back.                                                         *)
(***************************************************************************)
\* channels.channel_id is unique
channelIdTaken(channelId, exceptId) ==
  \E c \in dbChannels : c.channelId = channelId /\ c.id # exceptId
\* videos.video_id is unique
videoIdTaken(videoId) == \E v \in dbVideos : v.videoId = videoId
\* the foreign keys of videos and summaries
channelExists(id) == \E c \in dbChannels : c.id = id
videoExists(id) == \E v \in dbVideos : v.id = id

DrawSerial(table) == [dbSerial EXCEPT ![table] = @ + 1]

(***************************************************************************)
(* fetchChannelVideos(channelId, youtubeChannelId).                        *)
(***************************************************************************)
VideoIds == {"v1", "v2"}
\* the uploads getLatestVideos may return: lists of distinct videos
VideoLists ==
  {l \in SeqsUpTo(VideoIds, MaxVideos) : \A i, j \in 1..Len(l) : i # j => l[i] # l[j]}

\* youtubeService.getLatestVideos answers (its three requests in sequence)
getLatestVideos(r, lists) ==
  /\ req[r].pc = "fetchVideos"
  /\ \E a \in Failures \cup {Answer("ok", l) : l \in lists} :
       LET q == Answered(Fetch(req[r], "latestVideos"), OutcomeOf(a))
       IN IF a.kind # "ok"
          THEN Set(r, [q EXCEPT !.pc = "videosDone", !.fetchError = TRUE])
          ELSE IF a.items = <<>>
          THEN Set(r, [q EXCEPT !.pc = "videosDone"])
          ELSE Set(r, [q EXCEPT !.pc = "videoCheck", !.pending = a.items])
  /\ UNCHANGED <<dbVars, others>>

\* storage.getVideoByVideoId(video.id) for the next video of the list
getVideoByVideoId(r) ==
  /\ req[r].pc = "videoCheck"
  /\ LET q == req[r]
     IN IF videoIdTaken(Head(q.pending))
        THEN Set(r, [q EXCEPT !.pending = Tail(@),
                              !.pc = IF Tail(q.pending) = <<>> THEN "videosDone"
                                     ELSE "videoCheck"])
        ELSE Set(r, [q EXCEPT !.pc = "videoInsert"])
  /\ UNCHANGED <<dbVars, others>>

\* a variant whose table videos has neither the unique index nor the
\* foreign key
createVideoMutant(r) ==
  /\ req[r].pc = "videoInsert"
  /\ LET q == req[r]
     IN /\ dbVideos' = dbVideos \cup
             {[id |-> dbSerial.videos, channelId |-> q.channel,
               videoId |-> Head(q.pending)]}
        /\ Set(r, [q EXCEPT !.pending = Tail(@),
                            !.pc = IF Tail(q.pending) = <<>> THEN "videosDone"
                                   ELSE "videoCheck"])
  /\ dbSerial' = DrawSerial("videos")
  /\ UNCHANGED <<dbChannels, dbSummaries, others>>
\* storage.createVideo(videoData)
createVideo(r) ==
  /\ req[r].pc = "videoInsert"
  /\ LET q == req[r]
     IN IF videoIdTaken(Head(q.pending)) \/ ~channelExists(q.channel)
        THEN /\ Set(r, [q EXCEPT !.pc = "videosDone", !.fetchError = TRUE])
             /\ UNCHANGED dbVideos
        ELSE /\ dbVideos' = dbVideos \cup
                  {[id |-> dbSerial.videos, channelId |-> q.channel,
                    videoId |-> Head(q.pending)]}
             /\ Set(r, [q EXCEPT !.pending = Tail(@),
                                 !.pc = IF Tail(q.pending) = <<>> THEN "videosDone"
                                        ELSE "videoCheck"])
  /\ dbSerial' = DrawSerial("videos")
  /\ UNCHANGED <<dbChannels, dbSummaries, others>>

(***************************************************************************)
(* POST /api/channels.                                                     *)
(***************************************************************************)
ZodMessage == "invalid input data"
ChannelNotFoundMessage == "channel not found, check the URL"
AlreadyRegisteredMessage == "channel already registered"
CreateFailedMessage == "failed to add the channel"

\* res.status(status).json(...): the handler ends; a traced slot keeps what
\* the handler computed next to the response, another slot only the status
Respond(q, status, message) ==
  IF q.traced
  THEN [q EXCEPT !.pc = "done", !.status = status, !.message = message]
  ELSE [IdleReq EXCEPT !.route = q.route, !.pc = "done", !.traced = FALSE,
                       !.status = status]

\* the request arrives and channelInputSchema.parse(req.body) runs
postChannels(r, u) ==
  /\ Free(r)
  /\ IF isUrl(u)
     THEN Set(r, [Arrive(r, "postChannel", "start") EXCEPT !.url = u])
     ELSE Set(r, Respond([Arrive(r, "postChannel", "start") EXCEPT !.url = u],
                         400, ZodMessage))
  /\ UNCHANGED <<dbVars, others>>

\* youtubeService.getChannelInfo has returned or thrown
\* a variant without the inner catch
postChannelsInfoMutant(r) ==
  /\ req[r].route = "postChannel"
  /\ req[r].pc = "infoDone"
  /\ LET q == req[r]
     IN IF q.info.kind = "null"
        THEN Set(r, Respond(q, 400, ChannelNotFoundMessage))
        ELSE Set(r, [q EXCEPT !.pc = "checkExisting"])
  /\ UNCHANGED <<dbVars, others>>

postChannelsInfo(r) ==
  /\ req[r].route = "postChannel"
  /\ req[r].pc = "infoDone"
  /\ LET q == req[r]
     IN IF q.info.kind = "null"
        THEN Set(r, Respond(q, 400, ChannelNotFoundMessage))
        ELSE IF q.info.kind = "throw"
        THEN Set(r, Respond(q, 400, q.info.message))
        ELSE Set(r, [q EXCEPT !.pc = "checkExisting"])
  /\ UNCHANGED <<dbVars, others>>

\* storage.getChannelByChannelId(channelInfo.channelId)
postChannelsExisting(r) ==
  /\ req[r].route = "postChannel"
  /\ req[r].pc = "checkExisting"
  /\ IF channelIdTaken(req[r].info.channelId, 0)
     THEN Set(r, Respond(req[r], 400, AlreadyRegisteredMessage))
     ELSE Set(r, [req[r] EXCEPT !.pc = "create"])
  /\ UNCHANGED <<dbVars, others>>

\* storage.createChannel(channelData)
\* a variant over a table without the unique constraint
createChannelMutant(r) ==
  /\ req[r].route = "postChannel"
  /\ req[r].pc = "create"
  /\ LET q == req[r]
     IN /\ dbChannels' = dbChannels \cup
             {[id |-> dbSerial.channels, channelId |-> q.info.channelId,
               channelUrl |-> q.url]}
        /\ Set(r, [q EXCEPT !.pc = "fetchVideos", !.channel = dbSerial.channels])
  /\ dbSerial' = DrawSerial("channels")
  /\ UNCHANGED <<dbVideos, dbSummaries, others>>

createChannel(r) ==
  /\ req[r].route = "postChannel"
  /\ req[r].pc = "create"
  /\ LET q == req[r]
     IN IF channelIdTaken(q.info.channelId, 0)
        THEN /\ Set(r, Respond(q, 500, CreateFailedMessage))
             /\ UNCHANGED dbChannels
        ELSE /\ dbChannels' = dbChannels \cup
                  {[id |-> dbSerial.channels, channelId |-> q.info.channelId,
                    channelUrl |-> q.url]}
             /\ Set(r, [q EXCEPT !.pc = "fetchVideos", !.channel = dbSerial.channels])
  /\ dbSerial' = DrawSerial("channels")
  /\ UNCHANGED <<dbVideos, dbSummaries, others>>

\* fetchChannelVideos has returned or thrown: res.status(201).json(channel)
postChannelsCreated(r) ==
  /\ req[r].route = "postChannel"
  /\ req[r].pc = "videosDone"
  /\ Set(r, Respond(req[r], 201, ""))
  /\ UNCHANGED <<dbVars, others>>

(***************************************************************************)
(* PUT /api/channels/:id/refresh.                                          *)
(***************************************************************************)
RefreshInfoMessage == "cannot fetch channel info"
RefreshFailedMessage == "failed to refresh the channel"

\* the request arrives: storage.getChannel(id) is awaited
putChannelsRefresh(r, id) ==
  /\ Free(r)
  /\ Set(r, [Arrive(r, "putRefresh", "getChannel") EXCEPT !.channel = id])
  /\ UNCHANGED <<dbVars, others>>

\* storage.getChannel(id) has answered
getChannel(r) ==
  /\ req[r].route = "putRefresh"
  /\ req[r].pc = "getChannel"
  /\ IF channelExists(req[r].channel)
     THEN LET c == CHOOSE c \in dbChannels : c.id = req[r].channel
          IN Set(r, [req[r] EXCEPT !.pc = "start", !.url = c.channelUrl])
     ELSE Set(r, Respond(req[r], 404, ChannelNotFoundMessage))
  /\ UNCHANGED <<dbVars, others>>

\* youtubeService.getChannelInfo has returned or thrown
putRefreshInfo(r) ==
  /\ req[r].route = "putRefresh"
  /\ req[r].pc = "infoDone"
  /\ LET q == req[r]
     IN IF q.info.kind = "throw"
        THEN Set(r, Respond(q, 500, RefreshFailedMessage))
        ELSE IF q.info.kind = "null"
        THEN Set(r, Respond(q, 400, RefreshInfoMessage))
        ELSE Set(r, [q EXCEPT !.pc = "update"])
  /\ UNCHANGED <<dbVars, others>>

\* storage.updateChannel(id, {name, channelId, thumbnailUrl})
updateChannel(r) ==
  /\ req[r].route = "putRefresh"
  /\ req[r].pc = "update"
  /\ LET q == req[r]
     IN IF channelExists(q.channel) /\ channelIdTaken(q.info.channelId, q.channel)
        THEN /\ Set(r, Respond(q, 500, RefreshFailedMessage))
             /\ UNCHANGED dbChannels
        ELSE /\ dbChannels' = {IF c.id = q.channel
                               THEN [c EXCEPT !.channelId = q.info.channelId] ELSE c
                               : c \in dbChannels}
             /\ Set(r, Respond(q, 200, ""))
  /\ UNCHANGED <<dbVideos, dbSummaries, dbSerial, others>>

(***************************************************************************)
(* DELETE /api/channels/:id.                                               *)
(***************************************************************************)
DeleteFailedMessage == "failed to delete the channel"

\* DatabaseStorage.deleteChannel(id): one DELETE, refused while a video or a
\* summary refers to the channel
deleteChannels(r, id) ==
  /\ Free(r)
  /\ LET q == [Arrive(r, "deleteChannel", "start") EXCEPT !.channel = id]
     IN IF \/ \E v \in dbVideos : v.channelId = id
           \/ \E m \in dbSummaries : m.channelId = id
        THEN /\ Set(r, Respond(q, 500, DeleteFailedMessage))
             /\ UNCHANGED dbChannels
        ELSE IF channelExists(id)
        THEN /\ Set(r, Respond(q, 200, ""))
             /\ dbChannels' = {c \in dbChannels : c.id # id}
        ELSE /\ Set(r, Respond(q, 404, ChannelNotFoundMessage))
             /\ UNCHANGED dbChannels
  /\ UNCHANGED <<dbVideos, dbSummaries, dbSerial, others>>

(***************************************************************************)
(* The resolver applied to every URL the parts give.                       *)
(***************************************************************************)
InitUrl ==
  /\ \E p \in UrlParts :
       req = [r \in {1} |-> [IdleReq EXCEPT !.route = "getChannelInfo", !.pc = "start",
                                            !.parts = p, !.url = UrlOf(p)]]
  /\ dbChannels = {}
  /\ dbVideos = {}
  /\ dbSummaries = {}
  /\ dbSerial = [channels |-> 1, videos |-> 1, summaries |-> 1]
  /\ mem = EmptyMem
  /\ call = NoCall
  /\ NoRoutes
  /\ NoTasks

NextUrl ==
  \/ extractChannelId(1)
  \/ extractChannelIdAgain(1)
  \/ getChannelInfo(1)

SpecUrl == InitUrl /\ [][NextUrl]_vars

(***************************************************************************)
(* One registration request, with every answer the search may give.        *)
(***************************************************************************)
ResolveNames == {<<"a", "B">>, <<"b">>}
ResolveUrls ==
  {Scheme \o LitHost \o m \o n : m \in {MarkHandle, MarkC, MarkUser}, n \in ResolveNames}
    \cup {Scheme \o LitHost \o MarkChannel \o IdAt(1),
          Scheme \o LitHost \o MarkWatch \o <<"a">>,
          LitHost \o MarkHandle \o <<"a">>}

\* a channel registered earlier
EarlierChannel == [id |-> 1, channelId |-> IdAt(1), channelUrl |-> Scheme \o LitHost \o MarkChannel \o IdAt(1)]

InitResolve ==
  /\ req = [r \in {1} |-> IdleReq]
  /\ \/ dbChannels = {} /\ dbSerial = [channels |-> 1, videos |-> 1, summaries |-> 1]
     \/ dbChannels = {EarlierChannel} /\ dbSerial = [channels |-> 2, videos |-> 1, summaries |-> 1]
  /\ dbVideos = {}
  /\ dbSummaries = {}
  /\ mem = EmptyMem
  /\ call = NoCall
  /\ NoRoutes
  /\ NoTasks

NextResolve ==
  \/ \E u \in ResolveUrls : postChannels(1, u)
  \/ extractChannelId(1)
  \/ resolveForUsername(1, LookupAnswers)
  \/ resolveSearchAt(1, MaxItems)
  \/ resolveSearch(1, FallbackAnswers)
  \/ getChannelInfo(1)
  \/ getChannelInfoAnswer(1)
  \/ postChannelsInfo(1)
  \/ postChannelsExisting(1)
  \/ createChannel(1)
  \/ getLatestVideos(1, VideoLists)
  \/ getVideoByVideoId(1)
  \/ createVideo(1)
  \/ postChannelsCreated(1)

SpecResolve == InitResolve /\ [][NextResolve]_vars

(***************************************************************************)
(* The server: requests served concurrently, each resumed at its awaits in *)
(* any order.                                                              *)
(***************************************************************************)
Reqs == 1..MaxReq
ServerUrls ==
  {Scheme \o LitHost \o MarkChannel \o IdAt(1),
   Scheme \o LitHost \o MarkHandle \o <<"b">>}
\* the row ids a client may name
RowIds == 1..MaxReq
\* the upstream's answers to the server's lookups: a non-OK status, nothing,
\* or a channel
ServerLookupAnswers ==
  {Answer("status", <<>>), Answer("ok", <<>>), Answer("ok", <<[id |-> LegacyId]>>)}
ServerFallbackAnswers == {Answer("status", <<>>), Answer("ok", <<>>)}

Init ==
  /\ req = [r \in Reqs |-> [IdleReq EXCEPT !.traced = FALSE]]
  /\ dbChannels \in {{}, {EarlierChannel}}
  /\ dbVideos = {}
  /\ dbSummaries = {}
  /\ dbSerial = [channels |-> Cardinality(dbChannels) + 1, videos |-> 1, summaries |-> 1]
  /\ mem = EmptyMem
  /\ call = NoCall
  /\ NoRoutes
  /\ NoTasks

Next ==
  \E r \in Reqs :
    \/ \E u \in ServerUrls : postChannels(r, u)
    \/ \E id \in RowIds : putChannelsRefresh(r, id)
    \/ \E id \in RowIds : deleteChannels(r, id)
    \/ extractChannelId(r)
    \/ resolveForUsername(r, ServerLookupAnswers)
    \/ resolveSearchAt(r, 1)
    \/ resolveSearch(r, ServerFallbackAnswers)
    \/ getChannelInfo(r)
    \/ getChannelInfoAnswer(r)
    \/ postChannelsInfo(r)
    \/ postChannelsExisting(r)
    \/ createChannel(r)
    \/ getLatestVideos(r, {<<>>, <<"v1">>})
    \/ getVideoByVideoId(r)
    \/ createVideo(r)
    \/ postChannelsCreated(r)
    \/ getChannel(r)
    \/ putRefreshInfo(r)
    \/ updateChannel(r)

Spec == Init /\ [][Next]_vars

(***************************************************************************)
(* Two registrations served side by side, each with its log kept.          *)
(***************************************************************************)
TwoReqs == {1, 2}
TwoUrls == {Scheme \o LitHost \o MarkHandle \o <<"b">>}
\* the upstream's answers to the two registrations: failures, nothing, or a
\* channel
TwoLookupAnswers == Failures \cup {Answer("ok", <<>>), Answer("ok", <<[id |-> LegacyId]>>)}
TwoFallbackAnswers == Failures \cup {Answer("ok", <<>>)}

InitTwo ==
  /\ req = [r \in TwoReqs |-> IdleReq]
  /\ dbChannels = {}
  /\ dbVideos = {}
  /\ dbSummaries = {}
  /\ dbSerial = [channels |-> 1, videos |-> 1, summaries |-> 1]
  /\ mem = EmptyMem
  /\ call = NoCall
  /\ NoRoutes
  /\ NoTasks

NextTwo ==
  \E r \in TwoReqs :
    \/ \E u \in TwoUrls : postChannels(r, u)
    \/ extractChannelId(r)
    \/ resolveForUsername(r, TwoLookupAnswers)
    \/ resolveSearchAt(r, 0)
    \/ resolveSearch(r, TwoFallbackAnswers)
    \/ getChannelInfo(r)
    \/ getChannelInfoAnswer(r)
    \/ postChannelsInfo(r)
    \/ postChannelsExisting(r)
    \/ createChannel(r)
    \/ getLatestVideos(r, {<<>>, <<"v1">>})
    \/ getVideoByVideoId(r)
    \/ createVideo(r)
    \/ postChannelsCreated(r)

SpecTwo == InitTwo /\ [][NextTwo]_vars

(***************************************************************************)
(* The storage interface, called on a MemStorage and on the                *)
(* DatabaseStorage with the same arguments.                                *)
(***************************************************************************)
\* the rows a table is let grow to
MaxRows == 2
Rows == 1..MaxRows
\* the channel the calls are about: its YouTube identifier and its row
StorageChannelIds == {IdAt(1)}
ChannelRefs == {1}

\* MemStorage: the maps take whatever they are given
MemStorage_createChannel(m, channelId) ==
  [m EXCEPT !.channels = @ \cup {[id |-> m.currentChannelId, channelId |-> channelId]},
            !.currentChannelId = @ + 1]
MemStorage_createVideo(m, channelId, videoId) ==
  [m EXCEPT !.videos = @ \cup {[id |-> m.currentVideoId, channelId |-> channelId,
                                videoId |-> videoId]},
            !.currentVideoId = @ + 1]
MemStorage_createSummary(m, videoId, channelId) ==
  [m EXCEPT !.summaries = @ \cup {[id |-> m.currentSummaryId, videoId |-> videoId,
                                   channelId |-> channelId]},
            !.currentSummaryId = @ + 1]
MemStorage_deleteVideo(m, id) ==
  IF \E v \in m.videos : v.id = id
  THEN [m EXCEPT !.videos = {v \in @ : v.id # id},
                 !.summaries = {x \in @ : x.videoId # id}]
  ELSE m

\* IStorage.createChannel
storageCreateChannel(channelId) ==
  /\ mem.currentChannelId <= MaxRows /\ dbSerial.channels <= MaxRows
  /\ mem' = MemStorage_createChannel(mem, channelId)
  /\ IF channelIdTaken(channelId, 0)
     THEN /\ UNCHANGED dbChannels
          /\ call' = [op |-> "createChannel", id |-> 0, mem |-> TRUE, db |-> FALSE]
     ELSE /\ dbChannels' = dbChannels \cup
               {[id |-> dbSerial.channels, channelId |-> channelId, channelUrl |-> <<>>]}
          /\ call' = [op |-> "createChannel", id |-> dbSerial.channels,
                      mem |-> TRUE, db |-> TRUE]
  /\ dbSerial' = DrawSerial("channels")
  /\ UNCHANGED <<req, routeVars, dbVideos, dbSummaries, taskVars>>

\* IStorage.createVideo
storageCreateVideo(channelId, videoId) ==
  /\ mem.currentVideoId <= MaxRows /\ dbSerial.videos <= MaxRows
  /\ mem' = MemStorage_createVideo(mem, channelId, videoId)
  /\ IF videoIdTaken(videoId) \/ ~channelExists(channelId)
     THEN /\ UNCHANGED dbVideos
          /\ call' = [op |-> "createVideo", id |-> 0, mem |-> TRUE, db |-> FALSE]
     ELSE /\ dbVideos' = dbVideos \cup
               {[id |-> dbSerial.videos, channelId |-> channelId, videoId |-> videoId]}
          /\ call' = [op |-> "createVideo", id |-> dbSerial.videos,
                      mem |-> TRUE, db |-> TRUE]
  /\ dbSerial' = DrawSerial("videos")
  /\ UNCHANGED <<req, routeVars, dbChannels, dbSummaries, taskVars>>

\* IStorage.createSummary
storageCreateSummary(videoId, channelId) ==
  /\ mem.currentSummaryId <= MaxRows /\ dbSerial.summaries <= MaxRows
  /\ mem' = MemStorage_createSummary(mem, videoId, channelId)
  /\ IF ~videoExists(videoId) \/ ~channelExists(channelId)
     THEN /\ UNCHANGED dbSummaries
          /\ call' = [op |-> "createSummary", id |-> 0, mem |-> TRUE, db |-> FALSE]
     ELSE /\ dbSummaries' = dbSummaries \cup
               {[id |-> dbSerial.summaries, videoId |-> videoId, channelId |-> channelId]}
          /\ call' = [op |-> "createSummary", id |-> dbSerial.summaries,
                      mem |-> TRUE, db |-> TRUE]
  /\ dbSerial' = DrawSerial("summaries")
  /\ UNCHANGED <<req, routeVars, dbChannels, dbVideos, taskVars>>

\* DatabaseStorage.deleteVideo: the summaries of the video first, then the
\* video
DatabaseStorage_deleteVideo(id) ==
  /\ dbSummaries' = {x \in dbSummaries : x.videoId # id}
  /\ dbVideos' = {v \in dbVideos : v.id # id}

\* IStorage.deleteVideo, as DELETE /api/videos/:id calls it
storageDeleteVideo(id) ==
  /\ mem' = MemStorage_deleteVideo(mem, id)
  /\ DatabaseStorage_deleteVideo(id)
  /\ call' = [op |-> "deleteVideo", id |-> id,
              mem |-> \E v \in mem.videos : v.id = id,
              db |-> videoExists(id)]
  /\ UNCHANGED <<req, routeVars, dbChannels, dbSerial, taskVars>>

\* a variant that removes the channel and leaves its videos and summaries
MemStorage_deleteChannelMutant(m, id) ==
  [m EXCEPT !.channels = {c \in @ : c.id # id}]
\* MemStorage.deleteChannel: the channel, then its videos and its summaries
MemStorage_deleteChannel(m, id) ==
  IF \E c \in m.channels : c.id = id
  THEN [m EXCEPT !.channels = {c \in @ : c.id # id},
                 !.videos = {v \in @ : v.channelId # id},
                 !.summaries = {x \in @ : x.channelId # id}]
  ELSE m

\* whether a row of videos or summaries refers to the channel
channelReferenced(id) ==
  \/ \E v \in dbVideos : v.channelId = id
  \/ \E x \in dbSummaries : x.channelId = id

\* IStorage.deleteChannel; DatabaseStorage.deleteChannel is one DELETE on
\* channels, which the foreign keys of videos and summaries refuse (it
\* throws) while a row refers to the channel
storageDeleteChannel(id) ==
  /\ mem' = MemStorage_deleteChannel(mem, id)
  /\ IF channelReferenced(id)
     THEN UNCHANGED dbChannels
     ELSE dbChannels' = {c \in dbChannels : c.id # id}
  /\ call' = [op |-> "deleteChannel", id |-> id,
              mem |-> \E c \in mem.channels : c.id = id,
              db |-> channelExists(id) /\ ~channelReferenced(id),
              threw |-> channelReferenced(id),
              removed |-> Cardinality({v \in mem.videos : v.channelId = id})]
  /\ UNCHANGED <<req, routeVars, dbVideos, dbSummaries, dbSerial, taskVars>>

InitStorage ==
  /\ req = [r \in {1} |-> IdleReq]
  /\ dbChannels = {}
  /\ dbVideos = {}
  /\ dbSummaries = {}
  /\ dbSerial = [channels |-> 1, videos |-> 1, summaries |-> 1]
  /\ mem = EmptyMem
  /\ call = NoCall
  /\ NoRoutes
  /\ NoTasks

NextStorage ==
  \/ \E c \in StorageChannelIds : storageCreateChannel(c)
  \/ \E c \in ChannelRefs, v \in VideoIds : storageCreateVideo(c, v)
  \/ \E v \in Rows, c \in ChannelRefs : storageCreateSummary(v, c)
  \/ \E id \in Rows : storageDeleteVideo(id)
  \/ \E id \in Rows : storageDeleteChannel(id)

SpecStorage == InitStorage /\ [][NextStorage]_vars

(***************************************************************************)
(* The summary routes and their background tasks.                          *)
(***************************************************************************)
\* the summary requests of one run
MaxTasks == 2
ProgressIds == 1..MaxTasks
SummaryRoutes == {"videoSummary", "summaries"}
\* a variant that steps back before the write
WriteProgressMutant(route) == IF route = "videoSummary" THEN 40 ELSE 45
\* progressItem.progress before storage.createSummary, by route
WriteProgress(route) == IF route = "videoSummary" THEN 75 ELSE 80

SummarizeFailedMessage == "LLM call failed"
CreateSummaryFailedMessage == "insert into summaries failed"

\* what chat.completions.create may give: an error, text that is not JSON,
\* a JSON object with the fields asked for, a JSON object without content
LlmAnswers == {"throw", "unparsable", "json", "jsonNoContent"}
MinimalSummary ==
  [title |-> "videoTitle", content |-> "summaryText", keyPoints |-> <<>>,
   sections |-> <<>>, tags |-> <<>>, insights |-> <<>>]
ParsedSummary(content) ==
  [title |-> "llmTitle", content |-> content, keyPoints |-> <<"k">>,
   sections |-> <<"s">>, tags |-> <<"t">>, insights |-> <<"i">>]

\* a variant whose parse error leaves through the outer catch
summarizeVideoMutant(answer) ==
  CASE answer = "json" -> [threw |-> FALSE, value |-> ParsedSummary("llmContent")]
    [] answer = "jsonNoContent" -> [threw |-> FALSE, value |-> ParsedSummary("undefined")]
    [] OTHER -> [threw |-> TRUE, value |-> "none"]
\* OpenAIService.summarizeVideo
summarizeVideo(answer) ==
  CASE answer = "throw" -> [threw |-> TRUE, value |-> "none"]
    [] answer = "unparsable" -> [threw |-> FALSE, value |-> MinimalSummary]
    [] answer = "json" -> [threw |-> FALSE, value |-> ParsedSummary("llmContent")]
    [] OTHER -> [threw |-> FALSE, value |-> ParsedSummary("undefined")]

\* progressStore.set(progressId, item) and progressStore.delete(progressId)
StoreSet(p, item) ==
  [q \in (DOMAIN progressStore) \cup {p} |-> IF q = p THEN item ELSE progressStore[q]]
StoreDelete(p) == [q \in (DOMAIN progressStore) \ {p} |-> progressStore[q]]

\* storage.deleteSummary(id)
deleteSummary(id) == {m \in dbSummaries : m.id # id}

\* progressIds are drawn in order, each once
FreeTask(p) ==
  task[p].route = "none" /\ \A q \in DOMAIN task : q < p => task[q].route # "none"

\* progressItem is built and stored, 202 is answered, the background task
\* starts and runs up to its first await
Begin(t) ==
  [t EXCEPT !.progressItem = [status |-> "processing", progress |-> 25, error |-> "",
                               endTime |-> FALSE],
            !.status = 202, !.pc = "transcript"]

\* a variant without the catch: the task ends and writes nothing
FailedUncaughtMutant(p, t, message) ==
  /\ task' = [task EXCEPT ![p] = [t EXCEPT !.pc = "ended"]]
  /\ UNCHANGED progressStore
\* the catch of the background task, writing every entry of the store
FailedMutant(p, t, message) ==
  LET item == [t.progressItem EXCEPT !.status = "failed", !.error = message,
                                     !.endTime = TRUE]
  IN /\ task' = [task EXCEPT ![p] = [t EXCEPT !.progressItem = item, !.pc = "ended"]]
     /\ progressStore' = [q \in (DOMAIN progressStore) \cup {p} |-> item]
\* the catch of the background task
Failed(p, t, message) ==
  LET item == [t.progressItem EXCEPT !.status = "failed", !.error = message,
                                     !.endTime = TRUE]
  IN /\ task' = [task EXCEPT ![p] = [t EXCEPT !.progressItem = item, !.pc = "ended"]]
     /\ progressStore' = StoreSet(p, item)

\* a variant that returns without an endTime
CancelledMutant(p, t) ==
  LET item == [t.progressItem EXCEPT !.status = "cancelled"]
  IN /\ task' = [task EXCEPT ![p] = [t EXCEPT !.progressItem = item, !.pc = "ended"]]
     /\ progressStore' = StoreSet(p, item)
\* if (controller.signal.aborted) { ... return; }
Cancelled(p, t) ==
  LET item == [t.progressItem EXCEPT !.status = "cancelled", !.endTime = TRUE]
  IN /\ task' = [task EXCEPT ![p] = [t EXCEPT !.progressItem = item, !.pc = "ended"]]
     /\ progressStore' = StoreSet(p, item)

\* progressItem.progress = n; progressStore.set(...); the next stage is called
Advance(p, t, n, pc) ==
  LET item == [t.progressItem EXCEPT !.progress = n]
  IN /\ task' = [task EXCEPT ![p] = [t EXCEPT !.progressItem = item, !.pc = pc]]
     /\ progressStore' = StoreSet(p, item)

\* POST /api/videos/:videoId/summary and POST /api/summaries/:videoId arrive:
\* storage.getVideo and storage.getChannel
summaryRequest(p, route, v) ==
  /\ FreeTask(p)
  /\ IF videoExists(v) /\ \A x \in dbVideos : x.id = v => channelExists(x.channelId)
     THEN task' = [task EXCEPT ![p] = [IdleTask EXCEPT !.route = route, !.pc = "existing",
                                                      !.videoId = v]]
     ELSE task' = [task EXCEPT ![p] = [IdleTask EXCEPT !.route = route, !.pc = "done",
                                                      !.videoId = v, !.status = 404]]
  /\ UNCHANGED <<req, routeVars, dbVars, mem, call, progressStore>>

\* storage.getSummariesByChannel has answered: the summary of the video, if
\* there is one, is to be deleted
summaryExisting(p) ==
  /\ task[p].pc = "existing"
  /\ LET t == task[p]
         found == {m.id : m \in {m \in dbSummaries : m.videoId = t.videoId}}
     IN IF found = {}
        THEN /\ task' = [task EXCEPT ![p] = Begin(t)]
             /\ progressStore' = StoreSet(p, Begin(t).progressItem)
        ELSE /\ task' = [task EXCEPT ![p] = [t EXCEPT !.pc = "deleteExisting",
                                                      !.existing = Max(found)]]
             /\ UNCHANGED progressStore
  /\ UNCHANGED <<req, routeVars, dbVars, mem, call>>

\* a variant that keeps the existing summary
summaryDeleteExistingMutant(p) ==
  /\ task[p].pc = "deleteExisting"
  /\ UNCHANGED dbSummaries
  /\ task' = [task EXCEPT ![p] = Begin(task[p])]
  /\ progressStore' = StoreSet(p, Begin(task[p]).progressItem)
  /\ UNCHANGED <<req, routeVars, dbChannels, dbVideos, dbSerial, mem, call>>
\* storage.deleteSummary(existingSummary.id) has answered
summaryDeleteExisting(p) ==
  /\ task[p].pc = "deleteExisting"
  /\ dbSummaries' = deleteSummary(task[p].existing)
  /\ task' = [task EXCEPT ![p] = Begin(task[p])]
  /\ progressStore' = StoreSet(p, Begin(task[p]).progressItem)
  /\ UNCHANGED <<req, routeVars, dbChannels, dbVideos, dbSerial, mem, call>>

\* youtubeService.getVideoTranscript has answered
taskTranscript(p) ==
  /\ task[p].pc = "transcript"
  /\ IF task[p].aborted
     THEN Cancelled(p, task[p])
     ELSE Advance(p, task[p], 50, "llm")
  /\ UNCHANGED <<req, routeVars, dbVars, mem, call>>

\* a variant without the test of the abort signal after the LLM call
taskSummarizeMutant(p) ==
  /\ task[p].pc = "llm"
  /\ \E a \in LlmAnswers :
       LET t == [task[p] EXCEPT !.llm = a]
           r == summarizeVideo(a)
       IN IF r.threw
          THEN Failed(p, t, SummarizeFailedMessage)
          ELSE Advance(p, [t EXCEPT !.aiSummary = r.value], WriteProgress(t.route), "write")
  /\ UNCHANGED <<req, routeVars, dbVars, mem, call>>
\* openaiService.summarizeVideo has returned or thrown
taskSummarize(p) ==
  /\ task[p].pc = "llm"
  /\ \E a \in LlmAnswers :
       LET t == [task[p] EXCEPT !.llm = a]
           r == summarizeVideo(a)
       IN IF r.threw
          THEN Failed(p, t, SummarizeFailedMessage)
          ELSE IF t.aborted
          THEN Cancelled(p, t)
          ELSE Advance(p, [t EXCEPT !.aiSummary = r.value], WriteProgress(t.route), "write")
  /\ UNCHANGED <<req, routeVars, dbVars, mem, call>>

\* storage.createSummary has returned or thrown
taskCreateSummary(p) ==
  /\ task[p].pc = "write"
  /\ LET t == task[p]
     IN IF t.aiSummary.content = "undefined" \/ ~videoExists(t.videoId)
        THEN /\ Failed(p, t, CreateSummaryFailedMessage)
             /\ UNCHANGED dbSummaries
        ELSE /\ dbSummaries' = dbSummaries \cup
                  {[id |-> dbSerial.summaries, videoId |-> t.videoId,
                    channelId |-> (CHOOSE x \in dbVideos : x.id = t.videoId).channelId]}
             /\ LET item == [t.progressItem EXCEPT !.status = "completed", !.progress = 100,
                                                    !.endTime = TRUE]
                IN /\ task' = [task EXCEPT ![p] = [t EXCEPT !.progressItem = item,
                                                            !.pc = "ended"]]
                   /\ progressStore' = StoreSet(p, item)
  /\ dbSerial' = DrawSerial("summaries")
  /\ UNCHANGED <<req, routeVars, dbChannels, dbVideos, mem, call>>

\* what the progress routes answer is kept in call
Progressed(op, p, status) ==
  [op |-> op, id |-> p, mem |-> FALSE, db |-> FALSE, status |-> status]

\* a variant without the test of the entry's status
cancelProgressMutant(p) ==
  /\ IF p \notin DOMAIN progressStore
     THEN /\ call' = Progressed("cancel", p, 404)
          /\ UNCHANGED taskVars
     ELSE /\ task' = [task EXCEPT ![p] = [@ EXCEPT !.aborted = TRUE,
                         !.abortedIn = IF task[p].aborted THEN @ ELSE task[p].pc]]
          /\ progressStore' = StoreSet(p, [progressStore[p] EXCEPT !.status = "cancelled",
                                                                 !.endTime = TRUE])
          /\ call' = Progressed("cancel", p, 200)
  /\ UNCHANGED <<req, routeVars, dbVars, mem>>
\* POST /api/progress/:progressId/cancel
cancelProgress(p) ==
  /\ IF p \notin DOMAIN progressStore
     THEN /\ call' = Progressed("cancel", p, 404)
          /\ UNCHANGED taskVars
     ELSE IF progressStore[p].status \notin {"processing", "pending"}
     THEN /\ call' = Progressed("cancel", p, 400)
          /\ UNCHANGED taskVars
     ELSE /\ task' = [task EXCEPT ![p] = [@ EXCEPT !.aborted = TRUE,
                         !.abortedIn = IF task[p].aborted THEN @ ELSE task[p].pc]]
          /\ progressStore' = StoreSet(p, [progressStore[p] EXCEPT !.status = "cancelled",
                                                                 !.endTime = TRUE])
          /\ call' = Progressed("cancel", p, 200)
  /\ UNCHANGED <<req, routeVars, dbVars, mem>>

\* DELETE /api/progress/:progressId
deleteProgress(p) ==
  /\ IF p \in DOMAIN progressStore
     THEN /\ progressStore' = StoreDelete(p)
          /\ task' = [task EXCEPT ![p] = [@ EXCEPT !.deleted = TRUE]]
          /\ call' = Progressed("delete", p, 200)
     ELSE /\ call' = Progressed("delete", p, 404)
          /\ UNCHANGED taskVars
  /\ UNCHANGED <<req, routeVars, dbVars, mem>>

\* GET /api/progress: the ids listed
getProgress == DOMAIN progressStore

\* the video the summaries are asked for, and the summary it may have
SummaryVideo == [id |-> 1, channelId |-> 1, videoId |-> "v1"]
EarlierSummary == [id |-> 1, videoId |-> 1, channelId |-> 1]
\* the video ids a client may name
VideoRows == {1, 2}

InitSummary ==
  /\ req = [r \in {1} |-> IdleReq]
  /\ dbChannels = {EarlierChannel}
  /\ dbVideos = {SummaryVideo}
  /\ dbSummaries \in {{}, {EarlierSummary}}
  /\ dbSerial = [channels |-> 2, videos |-> 2, summaries |-> Cardinality(dbSummaries) + 1]
  /\ mem = EmptyMem
  /\ call = NoCall
  /\ NoRoutes
  /\ progressStore = <<>>
  /\ task = [p \in ProgressIds |-> IdleTask]

NextSummary ==
  \E p \in ProgressIds :
    \/ \E route \in SummaryRoutes, v \in VideoRows : summaryRequest(p, route, v)
    \/ summaryExisting(p)
    \/ summaryDeleteExisting(p)
    \/ taskTranscript(p)
    \/ taskSummarize(p)
    \/ taskCreateSummary(p)

SpecSummary == InitSummary /\ [][NextSummary]_vars

(***************************************************************************)
(* One summary task and the progress routes called on it.                  *)
(***************************************************************************)
\* the progressIds a client may name: the task's and one of no task
NamedIds == {1, 2}

InitProgress ==
  /\ req = [r \in {1} |-> IdleReq]
  /\ dbChannels = {EarlierChannel}
  /\ dbVideos = {SummaryVideo}
  /\ dbSummaries \in {{}, {EarlierSummary}}
  /\ dbSerial = [channels |-> 2, videos |-> 2, summaries |-> Cardinality(dbSummaries) + 1]
  /\ mem = EmptyMem
  /\ call = NoCall
  /\ NoRoutes
  /\ progressStore = <<>>
  /\ task = [p \in {1} |-> IdleTask]

NextProgress ==
  \/ \E route \in SummaryRoutes, v \in VideoRows : summaryRequest(1, route, v)
  \/ summaryExisting(1)
  \/ summaryDeleteExisting(1)
  \/ taskTranscript(1)
  \/ taskSummarize(1)
  \/ taskCreateSummary(1)
  \/ \E p \in NamedIds : cancelProgress(p)
  \/ \E p \in NamedIds : deleteProgress(p)

SpecProgress == InitProgress /\ [][NextProgress]_vars

\* the steps of the request and of its background task: each await of the
\* handler and of the task is answered in the end
taskStep ==
  \/ summaryExisting(1)
  \/ summaryDeleteExisting(1)
  \/ taskTranscript(1)
  \/ taskSummarize(1)
  \/ taskCreateSummary(1)

SpecProgressFair == SpecProgress /\ WF_vars(taskStep)

(***************************************************************************)
(* GET /api/export/:summaryId and ObsidianMCPService.putContent.           *)
(***************************************************************************)
MaxExports == 2
ExportIds == 1..MaxExports
\* the summary ids a client may name: a stored one and one of no summary
SummaryRows == {1, 2}
\* what the vault's REST API does with a request: a 2xx status, another
\* status, or no answer at all (fetch rejects)
VaultOutcomes == {"ok", "status", "throw"}
\* the stored sections: entries as the prompt asks for them, or entries the
\* LLM wrote without keyWords
SectionShapes == {"wellFormed", "noKeyWords"}

\* an export no request has asked for
IdleExport ==
  [pc |-> "idle", summaryId |-> 0, found |-> FALSE, requests |-> <<>>,
   answers |-> <<>>, returned |-> "none", responses |-> <<>>]

SetExport(e, new) == exports' = [exports EXCEPT ![e] = new]
Send(x, response) == [x EXCEPT !.responses = Append(@, response), !.pc = "done"]

\* putContent has returned: the route answers with the JSON or the file
exportPushed(x, success) ==
  IF success
  THEN Send([x EXCEPT !.returned = "true"], "obsidian_direct")
  ELSE Send([x EXCEPT !.returned = "false"], "download")

\* a variant that sends the POST whatever the PUT's answer
putAnsweredMutant(x, outcome) ==
  [x EXCEPT !.answers = Append(@, outcome), !.requests = Append(@, "POST"), !.pc = "post"]
\* putContent after its PUT: true on a 2xx status, the POST otherwise
putAnswered(x, outcome) ==
  IF outcome = "ok"
  THEN exportPushed([x EXCEPT !.answers = Append(@, outcome)], TRUE)
  ELSE [x EXCEPT !.answers = Append(@, outcome), !.requests = Append(@, "POST"),
                 !.pc = "post"]

\* initializeObsidianMCP, to its await or its end: with the key the service
\* is built and assigned, then the vault is asked; without it nothing is set
initializeObsidianMCP(apiKey) ==
  /\ startup.pc = "boot"
  /\ IF apiKey
     THEN /\ obsidianMCP' = TRUE
          /\ startup' = [startup EXCEPT !.pc = "connect", !.apiKey = TRUE]
     ELSE /\ startup' = [startup EXCEPT !.pc = "listening"]
          /\ UNCHANGED obsidianMCP
  /\ UNCHANGED <<req, dbVars, mem, call, taskVars, fanout, exports>>

\* ObsidianMCPService.connect is answered and registerRoutes goes on to
\* register the routes
\* a variant whose catch keeps the service it had assigned
connectMutant(outcome) ==
  /\ startup.pc = "connect"
  /\ startup' = [startup EXCEPT !.pc = "listening", !.connect = outcome]
  /\ UNCHANGED <<req, dbVars, mem, call, taskVars, fanout, exports, obsidianMCP>>

connect(outcome) ==
  /\ startup.pc = "connect"
  /\ startup' = [startup EXCEPT !.pc = "listening", !.connect = outcome]
  /\ IF outcome = "ok" THEN UNCHANGED obsidianMCP ELSE obsidianMCP' = FALSE
  /\ UNCHANGED <<req, dbVars, mem, call, taskVars, fanout, exports>>

\* the request arrives and storage.getSummary(summaryId) answers
getExport(e, id) ==
  /\ startup.pc = "listening"
  /\ exports[e].pc = "idle"
  /\ \A k \in DOMAIN exports : k < e => exports[k].pc # "idle"
  /\ IF \E m \in dbSummaries : m.id = id
     THEN SetExport(e, [exports[e] EXCEPT !.pc = "getChannel", !.summaryId = id])
     ELSE SetExport(e, Send([exports[e] EXCEPT !.summaryId = id], "404"))
  /\ UNCHANGED <<req, dbVars, mem, call, taskVars, fanout, obsidianMCP, startup>>

\* storage.getChannel answers, the Markdown is built, and either the PUT is
\* sent or the file is sent
exportChannel(e) ==
  /\ exports[e].pc = "getChannel"
  /\ LET x == exports[e]
         summary == CHOOSE m \in dbSummaries : m.id = x.summaryId
     IN IF ~channelExists(summary.channelId)
        THEN SetExport(e, Send(x, "404"))
        ELSE IF summary.sections = "noKeyWords"
        THEN SetExport(e, Send([x EXCEPT !.found = TRUE], "500"))
        ELSE IF obsidianMCP
        THEN SetExport(e, [x EXCEPT !.found = TRUE, !.requests = <<"PUT">>, !.pc = "put"])
        ELSE SetExport(e, Send([x EXCEPT !.found = TRUE], "download"))
  /\ UNCHANGED <<req, dbVars, mem, call, taskVars, fanout, obsidianMCP, startup>>

\* ObsidianMCPService.putContent: the PUT is answered
putContent(e, outcome) ==
  /\ exports[e].pc = "put"
  /\ SetExport(e, putAnswered(exports[e], outcome))
  /\ UNCHANGED <<req, dbVars, mem, call, taskVars, fanout, obsidianMCP, startup>>

\* ObsidianMCPService.appendContent: the POST is answered
appendContent(e, outcome) ==
  /\ exports[e].pc = "post"
  /\ SetExport(e, exportPushed([exports[e] EXCEPT !.answers = Append(@, outcome)],
                                outcome = "ok"))
  /\ UNCHANGED <<req, dbVars, mem, call, taskVars, fanout, obsidianMCP, startup>>

ExportSummary(shape) == [id |-> 1, videoId |-> 1, channelId |-> 1, sections |-> shape]

InitExport ==
  /\ req = [r \in {1} |-> IdleReq]
  /\ dbChannels = {EarlierChannel}
  /\ dbVideos = {SummaryVideo}
  /\ \E shape \in SectionShapes : dbSummaries = {ExportSummary(shape)}
  /\ dbSerial = [channels |-> 2, videos |-> 2, summaries |-> 2]
  /\ mem = EmptyMem
  /\ call = NoCall
  /\ NoTasks
  /\ fanout = NoFanout
  /\ exports = [e \in ExportIds |-> IdleExport]
  /\ obsidianMCP = FALSE
  /\ startup = Booting

NextExport ==
  \/ \E apiKey \in BOOLEAN : initializeObsidianMCP(apiKey)
  \/ \E outcome \in VaultOutcomes : connect(outcome)
  \/ \E e \in ExportIds :
       \/ \E id \in SummaryRows : getExport(e, id)
       \/ exportChannel(e)
       \/ \E outcome \in VaultOutcomes : putContent(e, outcome)
       \/ \E outcome \in VaultOutcomes : appendContent(e, outcome)

SpecExport == InitExport /\ [][NextExport]_vars

(***************************************************************************)
(* POST /api/channels/:id/fetch-videos and POST                            *)
(* /api/channels/fetch-all-videos.                                         *)
(***************************************************************************)

\* the request arrives, storage.getChannel(channelId) answers and
\* fetchChannelVideos starts
postFetchVideos(r, id) ==
  /\ Free(r)
  /\ LET q == [Arrive(r, "fetchVideos", "fetchVideos") EXCEPT !.channel = id]
     IN IF channelExists(id)
        THEN Set(r, q)
        ELSE Set(r, Respond(q, 404, ChannelNotFoundMessage))
  /\ UNCHANGED <<dbVars, others>>

\* fetchChannelVideos has returned (200) or thrown (500)
fetchVideosDone(r) ==
  /\ req[r].route = "fetchVideos"
  /\ req[r].pc = "videosDone"
  /\ Set(r, Respond(req[r], IF req[r].fetchError THEN 500 ELSE 200, ""))
  /\ UNCHANGED <<dbVars, others>>

\* the slots no request has taken, and the k-th of them
FreeSlots == {r \in DOMAIN req : req[r].route = "none"}
Rank(x, S) == Cardinality({y \in S : y <= x})
\* channels.map(async (channel) => ...): the callback of each channel runs up
\* to its first await, in the order of the list
SlotOf(c, chs) == CHOOSE r \in FreeSlots : Rank(r, FreeSlots) = Rank(c, chs)

\* storage.getChannels() answers: 400 for no channel, else the fan-out
postFetchAll ==
  /\ fanout.pc = "idle"
  /\ LET chs == {c.id : c \in dbChannels}
     IN /\ Cardinality(FreeSlots) >= Cardinality(chs)
        /\ IF chs = {}
           THEN /\ fanout' = [fanout EXCEPT !.pc = "done", !.status = 400, !.body = "message"]
                /\ UNCHANGED req
           ELSE /\ fanout' = [fanout EXCEPT !.pc = "running", !.channels = chs]
                /\ req' = [r \in DOMAIN req |->
                             IF \E c \in chs : SlotOf(c, chs) = r
                             THEN [Arrive(r, "fetchAll", "fetchVideos") EXCEPT
                                     !.channel = CHOOSE c \in chs : SlotOf(c, chs) = r]
                             ELSE req[r]]
  /\ UNCHANGED <<dbVars, mem, call, taskVars, exports, obsidianMCP, startup>>

\* the callback of one channel returns { channelId, success }: its promise
\* is fulfilled
fetchAllSettled(r) ==
  /\ req[r].route = "fetchAll"
  /\ req[r].pc = "videosDone"
  /\ LET q == req[r]
         result == [status |-> "fulfilled", success |-> ~q.fetchError]
     IN /\ fanout' =
             [fanout EXCEPT
                !.results = [c \in (DOMAIN @) \cup {q.channel} |->
                               IF c = q.channel THEN result ELSE @[c]],
                !.threw = IF q.fetchError THEN @ \cup {q.channel} ELSE @]
        /\ Set(r, Respond(q, 0, ""))
  /\ UNCHANGED <<dbVars, mem, call, taskVars, exports, obsidianMCP, startup>>

\* a variant that counts every fulfilled promise as a success
SucceededMutant(results) == {c \in DOMAIN results : results[c].status = "fulfilled"}
\* results.forEach: fulfilled with value.success counts as a success
Succeeded(results) ==
  {c \in DOMAIN results : results[c].status = "fulfilled" /\ results[c].success}

\* Promise.allSettled has resolved: the counts are answered
fetchAllRespond ==
  /\ fanout.pc = "running"
  /\ DOMAIN fanout.results = fanout.channels
  /\ fanout' = [fanout EXCEPT
                  !.pc = "done", !.status = 200, !.body = "counts",
                  !.successCount = Cardinality(Succeeded(fanout.results)),
                  !.errorCount =
                    Cardinality((DOMAIN fanout.results) \ Succeeded(fanout.results)),
                  !.totalChannels = Cardinality(fanout.channels)]
  /\ UNCHANGED <<req, dbVars, mem, call, taskVars, exports, obsidianMCP, startup>>

\* the channels registered before, and the URL of one to register
SecondChannel ==
  [id |-> 2, channelId |-> IdAt(2), channelUrl |-> Scheme \o LitHost \o MarkChannel \o IdAt(2)]
FetchUrls == {Scheme \o LitHost \o MarkChannel \o IdAt(7)}
FetchReqs == {1, 2, 3}

InitFetch ==
  /\ req = [r \in FetchReqs |-> [IdleReq EXCEPT !.traced = FALSE]]
  /\ dbChannels \in {{}, {EarlierChannel}, {EarlierChannel, SecondChannel}}
  /\ dbVideos = {}
  /\ dbSummaries = {}
  /\ dbSerial = [channels |-> 3, videos |-> 1, summaries |-> 1]
  /\ mem = EmptyMem
  /\ call = NoCall
  /\ NoTasks
  /\ NoRoutes

NextFetch ==
  \/ postFetchAll
  \/ fetchAllRespond
  \/ \E r \in FetchReqs :
       \/ \E id \in {1, 3} : postFetchVideos(r, id)
       \/ fetchVideosDone(r)
       \/ fetchAllSettled(r)
       \/ getLatestVideos(r, VideoLists)
       \/ getVideoByVideoId(r)
       \/ createVideo(r)
       \/ \E u \in FetchUrls : postChannels(r, u)
       \/ extractChannelId(r)
       \/ getChannelInfo(r)
       \/ getChannelInfoAnswer(r)
       \/ postChannelsInfo(r)
       \/ postChannelsExisting(r)
       \/ createChannel(r)
       \/ postChannelsCreated(r)
       \/ deleteChannels(r, 2)

SpecFetch == InitFetch /\ [][NextFetch]_vars

(***************************************************************************)
(* Properties of URL-shape matching (SpecUrl).                             *)
(***************************************************************************)
Served == {r \in DOMAIN req : req[r].route # "none"}

\* the characters of a YouTube channel identifier
IdentifierChars == {"a", "B", "7", "_", "-"}

\* a URL written as youtube.com/@<handle> with a non-empty handle
HandleInput(q) ==
  /\ q.parts.host = LitHost
  /\ q.parts.marker = MarkHandle
  /\ q.parts.name # <<>>

\* a URL written as youtube.com/channel/<ID> with <ID> a non-empty identifier
ChannelInput(q) ==
  /\ q.parts.host = LitHost
  /\ q.parts.marker = MarkChannel
  /\ q.parts.name # <<>>
  /\ \A i \in 1..Len(q.parts.name) : q.parts.name[i] \in IdentifierChars

\* C2: for every handle URL youtube.com/@<handle> whose handle is made of
\* Unicode letters, digits, "_", "-" and ".", extractChannelId recognizes the
\* handle shape and hands the complete handle to the lookup procedure.
C2_HandleRecognized ==
  \A r \in Served :
    (HandleInput(req[r]) /\ req[r].pc # "start")
      => (req[r].pc = "tier1" /\ req[r].username = req[r].parts.name)

\* C3: for every URL youtube.com/channel/<ID> with a non-empty identifier <ID>,
\* extractChannelId returns exactly <ID>, on the first call and on the calls
\* that follow it, issues no lookup or search request, and changes no stored
\* record.
C3_DirectIdentifier ==
  \A r \in Served :
    ChannelInput(req[r]) =>
      /\ (req[r].pc = "start" /\ req[r].results = <<>>) \/ req[r].extracted = req[r].parts.name
      /\ \A i \in 1..Len(req[r].results) : req[r].results[i] = req[r].parts.name
      /\ \A i \in 1..Len(req[r].requests) : req[r].requests[i] = "channelsById"
      /\ req[r].pc \in {"start", "extracted"} => req[r].requests = <<>>
      /\ dbChannels = {} /\ dbVideos = {} /\ dbSummaries = {}

\* two calls in succession have returned, for an identifier with a "-" in it
C3_Witness ==
  \E r \in Served :
    /\ ChannelInput(req[r])
    /\ Len(req[r].results) >= 2
    /\ \E i \in 1..Len(req[r].parts.name) : req[r].parts.name[i] = "-"
    /\ req[r].results[2] = req[r].parts.name

\* C4: for every URL that matches none of the four patterns, resolution ends
\* in the invalid-URL error of getChannelInfo and no request of any kind has
\* been issued.
C4_UnrecognizedShape ==
  \A r \in Served :
    firstPattern(req[r].url) = 0 =>
      /\ req[r].requests = <<>>
      /\ req[r].inflight = 0
      /\ req[r].pc \in {"start", "extracted", "infoDone"}
      /\ (req[r].pc = "extracted" \/ req[r].results # <<>>) => req[r].extracted = Null
      /\ req[r].pc = "infoDone" =>
           /\ req[r].info.kind = "throw"
           /\ req[r].info.message = InvalidUrlMessage

\* a bare video URL has been refused
C4_Witness ==
  \E r \in Served :
    /\ req[r].parts.marker = MarkWatch
    /\ req[r].parts.host = LitHost
    /\ firstPattern(req[r].url) = 0
    /\ req[r].pc = "infoDone"
    /\ req[r].info.kind = "throw"

(***************************************************************************)
(* Properties of the handle lookup (SpecResolve).                          *)
(***************************************************************************)
\* the candidates of the "@<name>" search whose customUrl equals "@<name>"
\* case-insensitively
ExactCandidates(q) == {i \in 1..Len(q.items) : exactCustomUrl(q.items[i], q.username)}

\* no candidate matches by exact customUrl, by customUrl substring or by title
NoCandidateMatches(q) ==
  \A i \in 1..Len(q.items) :
    /\ ~exactCustomUrl(q.items[i], q.username)
    /\ ~containsHandle(q.items[i], q.username)
    /\ ~titleEquals(q.items[i], q.username)

\* C1: whenever the "@<name>" search returns a candidate whose customUrl equals
\* "@<name>" case-insensitively, the resolver returns that candidate's
\* channelId, at any position and whatever the earlier candidates are.
C1_ExactMatchWins ==
  \A r \in Served :
    (req[r].items # <<>> /\ ExactCandidates(req[r]) # {})
      => \E i \in ExactCandidates(req[r]) : req[r].extracted = req[r].items[i].channelId

\* C5: when the legacy lookup yields nothing and the "@<name>" search returns a
\* non-empty list in which no candidate matches, the resolver returns the
\* channelId of the first candidate and never issues the un-prefixed search.
C5_FirstCandidateFallback ==
  \A r \in Served :
    (req[r].items # <<>> /\ NoCandidateMatches(req[r]))
      => /\ req[r].extracted = req[r].items[1].channelId
         /\ req[r].extracted # Null
         /\ \A k \in 1..Len(req[r].requests) : req[r].requests[k] # "search"
         /\ req[r].pc \notin {"tier1", "tier2", "tier3"}

\* the legacy lookup was empty, two candidates came back, none matches, and the
\* first one's identifier is what the resolver returned
C5_Witness ==
  \E r \in Served :
    /\ req[r].answers # <<>> /\ req[r].answers[1] = "empty"
    /\ Len(req[r].items) >= 2
    /\ NoCandidateMatches(req[r])
    /\ req[r].extracted = IdAt(1)
    /\ req[r].pc = "extracted"

TierOrder == <<"forUsername", "searchAt", "search">>
\* the positions of the lookup and search requests in the request log
TierRequests(q) ==
  {k \in 1..Len(q.requests) : q.requests[k] \in {"forUsername", "searchAt", "search"}}

\* C6: for a name/handle URL the requests are issued in the order legacy
\* lookup, "@<name>" search, un-prefixed search; a tier's request is issued only
\* after the previous tier's answer has come without an identifier; the first
\* tier that yields an identifier ends the call; so 1 to 3 requests are issued
\* and never two are in flight.
C6_TierOrder ==
  \A r \in Served :
    req[r].username # Null =>
      LET q == req[r]
          n == Cardinality(TierRequests(q))
      IN /\ n >= 1 /\ n <= 3
         /\ TierRequests(q) = 1..n
         /\ \A k \in 1..n : q.requests[k] = TierOrder[k]
         /\ q.inflight <= 1
         /\ \A k \in 2..n : Len(q.answers) >= k - 1 /\ q.answers[k - 1] \in {"status", "empty"}
         /\ \A k \in 1..n : (Len(q.answers) >= k /\ q.answers[k] = "found") => n = k
         /\ q.pc \in {"tier1", "tier2", "tier3"} <=> q.inflight = 1 /\ Len(q.answers) = n - 1

\* all three tiers were tried and the third one found the channel
C6_Witness ==
  \E r \in Served :
    /\ req[r].username # Null
    /\ Len(req[r].requests) >= 3
    /\ req[r].requests[3] = "search"
    /\ Len(req[r].answers) >= 3
    /\ req[r].answers[2] = "empty"
    /\ req[r].answers[3] = "found"
    /\ req[r].extracted = FallbackId

\* every tier of the lookup has answered and none returned a candidate
Exhausted(q) ==
  /\ q.username # Null
  /\ Len(q.answers) >= 3
  /\ \A k \in 1..3 : q.answers[k] = "empty"

\* C8: when a name/handle URL is recognized but every tier returns zero
\* candidates, resolution fails and POST /api/channels answers with a 4xx
\* status; no channel is created and no video is fetched or stored.
C8_ExhaustedRegistration ==
  \A r \in Served :
    (req[r].route = "postChannel" /\ Exhausted(req[r])) =>
      /\ req[r].extracted = Null
      /\ req[r].info.kind \in {"none", "throw"}
      /\ req[r].pc \in {"extracted", "infoDone", "done"}
      /\ req[r].pc = "done" => (req[r].status >= 400 /\ req[r].status <= 499)
      /\ req[r].channel = 0
      /\ Len(req[r].requests) = 3
      /\ dbChannels \in {{}, {EarlierChannel}}
      /\ dbSerial = [channels |-> Cardinality(dbChannels) + 1, videos |-> 1, summaries |-> 1]
      /\ dbVideos = {}
      /\ dbSummaries = {}

\* the registration of an unregistered handle has been answered
C8_Witness ==
  \E r \in Served :
    /\ req[r].route = "postChannel"
    /\ Exhausted(req[r])
    /\ req[r].pc = "done"
    /\ req[r].status = 400
    /\ dbChannels = {EarlierChannel}

(***************************************************************************)
(* Properties of two registrations side by side (SpecTwo).                 *)
(***************************************************************************)
\* every tier was reached and every tier answered with a non-OK status
NonSuccessAtEveryTier(q) ==
  /\ q.username # Null
  /\ Len(q.answers) >= 3
  /\ \A k \in 1..3 : q.answers[k] = "status"

\* C7: a handle lookup whose every tier answered with a non-success status
\* ends in an outcome of its own: against a lookup whose every tier answered
\* with zero candidates, neither the resolver's result value nor the error
\* the client is shown is the same.
C7_UpstreamDistinguished ==
  \A r1, r2 \in Served :
    (/\ NonSuccessAtEveryTier(req[r1]) /\ req[r1].pc = "done"
     /\ Exhausted(req[r2]) /\ req[r2].pc = "done")
      => /\ req[r1].extracted # req[r2].extracted
         /\ <<req[r1].status, req[r1].message>> # <<req[r2].status, req[r2].message>>

(***************************************************************************)
(* Properties of the server (Spec).                                        *)
(***************************************************************************)
UniqueChannelId == \A a, b \in dbChannels : a.channelId = b.channelId => a = b

\* a step in which storage.createChannel or storage.updateChannel is asked to
\* store a channelId that another row holds
DuplicateWrite(r) ==
  \/ /\ req[r].route = "postChannel" /\ req[r].pc = "create"
     /\ req'[r] # req[r]
     /\ channelIdTaken(req[r].info.channelId, 0)
  \/ /\ req[r].route = "putRefresh" /\ req[r].pc = "update"
     /\ req'[r] # req[r]
     /\ channelExists(req[r].channel)
     /\ channelIdTaken(req[r].info.channelId, req[r].channel)

\* C9: in every reachable state no two channel rows have the same channelId,
\* whatever the interleaving of POST /api/channels and
\* PUT /api/channels/:id/refresh requests; a write that would duplicate a
\* channelId is refused by the table, answers 500 and leaves every row as it
\* was.
C9_UniqueChannelId ==
  /\ []UniqueChannelId
  /\ [][\A r \in Reqs :
          DuplicateWrite(r) =>
            /\ dbChannels' = dbChannels
            /\ req'[r].pc = "done"
            /\ req'[r].status = 500]_vars

\* two registrations of one channel both passed the existence check: one was
\* answered 201, the other was refused by the table, and one row is stored
C9_Witness ==
  /\ \A r \in {1, 2} : req[r].route = "postChannel" /\ req[r].pc = "done"
  /\ {req[1].status, req[2].status} = {201, 500}
  /\ Cardinality(dbChannels) = 1
  /\ dbSerial.channels = 3

(***************************************************************************)
(* Properties of the storage interface (SpecStorage).                      *)
(***************************************************************************)
\* the summaries of s are all in t, row for row
Preserved(s, t) ==
  \A x \in s : \E y \in t : y.id = x.id /\ y.videoId = x.videoId /\ y.channelId = x.channelId

\* C10: deleteVideo deletes no summary: in both storages every summary stored
\* before the call, those of the deleted video included, is stored after it
\* with the channelId it had.
C10_DeleteVideoKeepsSummaries ==
  [][call'.op = "deleteVideo" =>
       /\ Preserved(mem.summaries, mem'.summaries)
       /\ Preserved(dbSummaries, dbSummaries')]_vars

(***************************************************************************)
(* Properties of one summary task and the progress routes (SpecProgress).  *)
(***************************************************************************)
Stages == {"transcript", "llm", "write"}

C15_ParseFailureDegrades ==
  \A p \in DOMAIN task :
    task[p].llm = "unparsable" =>
      /\ task[p].progressItem.status # "failed"
      /\ task[p].pc \in {"write", "ended"}
      /\ ~task[p].aborted =>
           /\ task[p].aiSummary.title = "videoTitle"
           /\ task[p].aiSummary.keyPoints = <<>>
           /\ task[p].aiSummary.sections = <<>>
           /\ task[p].aiSummary.tags = <<>>
           /\ task[p].aiSummary.insights = <<>>

\* the text did not parse and the summary of the minimal record is stored
C15_Witness ==
  \E p \in DOMAIN task :
    /\ task[p].llm = "unparsable"
    /\ task[p].pc = "ended"
    /\ task[p].progressItem.status = "completed"
    /\ \E m \in dbSummaries : m.videoId = task[p].videoId

\* C18: once DELETE /api/progress/:progressId has answered success, the
\* store holds no entry of that id and GET /api/progress does not list it.
C18_DeletedStaysDeleted ==
  \A p \in DOMAIN task : task[p].deleted => p \notin getProgress

\* C19: the cancel route answers 404 for an id the store does not hold, 400
\* for an entry whose status is completed, failed or cancelled, and succeeds
\* only for an entry that is processing or pending; when it answers 404 or
\* 400 the store and the abort signal are as before.
C19_CancelGuard ==
  [][(call' # call /\ call'.op = "cancel") =>
       LET p == call'.id
       IN /\ call'.status = 404 <=> p \notin DOMAIN progressStore
          /\ call'.status = 400 <=>
               (p \in DOMAIN progressStore
                  /\ progressStore[p].status \in {"completed", "failed", "cancelled"})
          /\ call'.status = 200 <=>
               (p \in DOMAIN progressStore
                  /\ progressStore[p].status \in {"processing", "pending"})
          /\ call'.status \in {404, 400} => (progressStore' = progressStore /\ task' = task)
          /\ call'.status = 200 =>
               (task'[p].aborted /\ progressStore'[p].status = "cancelled")]_vars

\* a cancel of a completed entry was answered 400
C19_Witness ==
  /\ call.op = "cancel"
  /\ call.status = 400
  /\ call.id \in DOMAIN progressStore
  /\ progressStore[call.id].status = "completed"
  /\ ~task[call.id].aborted

(***************************************************************************)
(* Properties of concurrent summary tasks (SpecSummary).                   *)
(***************************************************************************)
\* C12: when a summary task fails, status failed and the error message are
\* written to its own progress entry only; the entries of the other tasks
\* and the tasks themselves are as they were.
C12_FailureIsolated ==
  [][\A p \in ProgressIds :
       (task[p].progressItem.status # "failed" /\ task'[p].progressItem.status = "failed") =>
         /\ progressStore'[p].status = "failed"
         /\ progressStore'[p].error # ""
         /\ \A q \in ProgressIds \ {p} :
              /\ task'[q] = task[q]
              /\ q \in DOMAIN progressStore' <=> q \in DOMAIN progressStore
              /\ q \in DOMAIN progressStore => progressStore'[q] = progressStore[q]]_vars

\* one task has failed while another is at its LLM call, still processing
C12_Witness ==
  \E p, q \in ProgressIds :
    /\ p # q
    /\ task[p].progressItem.status = "failed"
    /\ progressStore[p].status = "failed"
    /\ task[q].pc = "llm"
    /\ progressStore[q].status = "processing"

\* C17: at most one stored summary refers to a given video, whatever the
\* interleaving of the summary requests for it.
C17_OneSummaryPerVideo ==
  \A a, b \in dbSummaries : a.videoId = b.videoId => a = b

(***************************************************************************)
(* Properties of the export route and the vault client (SpecExport).       *)
(***************************************************************************)
VaultFailed(outcome) == outcome \in {"status", "throw"}

\* C13: putContent sends the PUT first and a POST only after the PUT failed
\* (a non-success status or a thrown error); it returns true exactly when
\* the PUT or the fallback POST succeeded, and it never throws.
C13_PutThenPost ==
  \A e \in DOMAIN exports :
    LET x == exports[e]
    IN x.requests # <<>> =>
         /\ x.requests \in {<<"PUT">>, <<"PUT", "POST">>}
         /\ Len(x.requests) = 2 => VaultFailed(x.answers[1])
         /\ (x.answers # <<>> /\ VaultFailed(x.answers[1])) => Len(x.requests) = 2
         /\ x.pc = "done" => (x.returned \in {"true", "false"} /\ x.responses # <<"500">>)
         /\ x.returned = "true" <=>
              (x.answers # <<>> /\ x.answers[Len(x.answers)] = "ok")
         /\ x.returned = "false" <=>
              (Len(x.answers) = 2 /\ VaultFailed(x.answers[1]) /\ VaultFailed(x.answers[2]))

\* the PUT threw and the fallback POST succeeded: putContent returned true
C13_Witness ==
  \E e \in DOMAIN exports :
    /\ exports[e].requests = <<"PUT", "POST">>
    /\ exports[e].answers = <<"throw", "ok">>
    /\ exports[e].returned = "true"

\* C14: for an existing summary whose channel exists the export route sends
\* exactly one response and none before it has ended: the obsidian_direct
\* JSON if the integration is present and the push succeeded, the Markdown
\* download otherwise.
C14_OneOfTwoResponses ==
  \A e \in DOMAIN exports :
    LET x == exports[e]
    IN /\ Len(x.responses) <= 1
       /\ x.pc # "done" => x.responses = <<>>
       /\ (x.found /\ x.pc = "done") =>
         /\ Len(x.responses) = 1
         /\ x.responses[1] =
              IF obsidianMCP /\ x.returned = "true" THEN "obsidian_direct" ELSE "download"

(***************************************************************************)
(* Properties of the video fetches (SpecFetch).                            *)
(***************************************************************************)
\* the aggregate of an answered fan-out: the counts add up to the number of
\* channels storage.getChannels returned, and the failures are the channels
\* whose fetchChannelVideos threw
Aggregate ==
  /\ fanout.body = "counts"
  /\ DOMAIN fanout.results = fanout.channels
  /\ fanout.successCount + fanout.errorCount = fanout.totalChannels
  /\ fanout.totalChannels = Cardinality(fanout.channels)
  /\ fanout.errorCount = Cardinality(fanout.threw)
  /\ fanout.successCount = Cardinality(fanout.channels \ fanout.threw)

\* C16 as stated: the fan-out attempts the fetch of every registered channel
\* even when some fail, and its response always carries successCount +
\* errorCount = totalChannels = number of registered channels, with errorCount
\* the number of channels whose fetch threw.
C16_AggregateAlways == fanout.pc = "done" => Aggregate

\* C16, amended: with at least one registered channel the response is 200
\* with the aggregate above, every channel's fetch having been attempted;
\* with no registered channel the response is 400 with a message and no
\* counts.
C16_AggregateWhenRegistered ==
  /\ (fanout.pc = "done" /\ fanout.channels # {}) => (fanout.status = 200 /\ Aggregate)
  /\ (fanout.pc = "done" /\ fanout.channels = {}) =>
       (fanout.status = 400 /\ fanout.body = "message")
  /\ fanout.pc = "running" => DOMAIN fanout.results \subseteq fanout.channels

\* of two channels one fetch threw and the other was still carried out
C16_Witness ==
  /\ fanout.pc = "done"
  /\ Cardinality(fanout.channels) = 2
  /\ fanout.errorCount = 1
  /\ fanout.successCount = 1
  /\ \E v \in dbVideos : v.channelId \in fanout.channels \ fanout.threw

\* C20: no two stored videos have the same external videoId and every
\* stored video belongs to exactly one channel, whatever the interleaving
\* of the fetchChannelVideos runs of registration, single-channel fetch and
\* fan-out.
C20_VideosUnique ==
  /\ \A a, b \in dbVideos : a.videoId = b.videoId => a = b
  /\ \A v \in dbVideos : Cardinality({c \in dbChannels : c.id = v.channelId}) = 1

\* a run passed the existence check, another channel's run inserted the
\* video first, and the run's own insert was refused
C20_Witness ==
  \E r \in DOMAIN req :
    /\ req[r].pc = "videosDone"
    /\ req[r].fetchError
    /\ req[r].pending # <<>>
    /\ \E v \in dbVideos : v.videoId = Head(req[r].pending) /\ v.channelId # req[r].channel

(***************************************************************************)
(* The two storages side by side (SpecStorage).                            *)
(***************************************************************************)
\* the rows of a table, column for column
RowsOf(t) == {[id |-> x.id, channelId |-> x.channelId] : x \in t}
RefsOf(t) == {[id |-> x.id, videoId |-> x.videoId, channelId |-> x.channelId] : x \in t}

\* C21: the same calls made on a MemStorage and on the DatabaseStorage from
\* empty stores succeed or fail together and leave the same channel, video
\* and summary records.
C21_StoragesInterchangeable ==
  /\ call.op # "none" => call.mem = call.db
  /\ RowsOf(mem.channels) = RowsOf(dbChannels)
  /\ RefsOf(mem.videos) = RefsOf(dbVideos)
  /\ RefsOf(mem.summaries) = RefsOf(dbSummaries)

\* C29: MemStorage.deleteChannel(id) of a stored channel returns true and
\* leaves no video and no summary of that channel, the records of the other
\* channels being as before; of a channel not stored it returns false and
\* leaves channels, videos and summaries as before.
C29_MemDeleteChannel ==
  [][call'.op = "deleteChannel" =>
       LET id == call'.id
       IN IF \E c \in mem.channels : c.id = id
          THEN /\ call'.mem
               /\ mem'.channels = {c \in mem.channels : c.id # id}
               /\ \A v \in mem'.videos : v.channelId # id
               /\ \A x \in mem'.summaries : x.channelId # id
               /\ mem'.videos = {v \in mem.videos : v.channelId # id}
               /\ mem'.summaries = {x \in mem.summaries : x.channelId # id}
          ELSE /\ ~call'.mem
               /\ mem'.channels = mem.channels
               /\ mem'.videos = mem.videos
               /\ mem'.summaries = mem.summaries]_vars

\* a channel that had a video was deleted, and another channel is still
\* stored
C29_Witness ==
  /\ call.op = "deleteChannel"
  /\ call.mem
  /\ call.removed > 0
  /\ mem.channels # {}
  /\ \A c \in mem.channels : c.id # call.id
  /\ \A v \in mem.videos : v.channelId # call.id

(***************************************************************************)
(* Properties of the progress entries (SpecProgress).                      *)
(***************************************************************************)
Terminal == {"completed", "failed", "cancelled"}

\* C22: once the cancel route has answered success for an entry, the stored
\* status of the entry is cancelled in every later state in which the entry
\* exists; the task never overwrites it with completed, failed or processing.
C22_CancelledStays ==
  \A p \in DOMAIN task :
    (task[p].aborted /\ p \in DOMAIN progressStore) => progressStore[p].status = "cancelled"

\* C23: if the cancel is acknowledged before the task's LLM call has
\* returned, the task never calls storage.createSummary and no summary of
\* the video is stored for it.
C23_NoWriteAfterCancel ==
  \A p \in DOMAIN task :
    task[p].abortedIn \in {"transcript", "llm"} =>
      /\ task[p].pc \in {"transcript", "llm", "ended"}
      /\ task[p].pc = "ended" => task[p].progressItem.status \in {"cancelled", "failed"}
      /\ \A m \in dbSummaries : m.videoId # task[p].videoId

\* the cancel came during the LLM call, the call returned a summary, and the
\* task ended without a write
C23_Witness ==
  \E p \in DOMAIN task :
    /\ task[p].abortedIn = "llm"
    /\ task[p].llm = "json"
    /\ task[p].pc = "ended"
    /\ task[p].progressItem.status = "cancelled"
    /\ dbSummaries = {}

ProgressValues == {0, 25, 50, 75, 80, 100}

\* C25: the stored progress of an entry never decreases, is one of 0, 25,
\* 50, 75, 80, 100, and is 100 exactly when the stored status is completed.
C25_ProgressMonotone ==
  /\ [](\A p \in DOMAIN progressStore :
          /\ progressStore[p].progress \in ProgressValues
          /\ progressStore[p].progress = 100 <=> progressStore[p].status = "completed")
  /\ [][\A p \in (DOMAIN progressStore) \cap (DOMAIN progressStore') :
          progressStore'[p].progress >= progressStore[p].progress]_vars

\* an entry was cancelled, then completed by its task, at 100
C25_Witness ==
  \E p \in DOMAIN progressStore :
    /\ task[p].aborted
    /\ progressStore[p].status = "completed"
    /\ progressStore[p].progress = 100

\* C26: a stored entry has an endTime exactly when its status is completed,
\* failed or cancelled; a processing entry has none.
C26_EndTimeWhenTerminal ==
  \A p \in DOMAIN progressStore :
    progressStore[p].endTime <=> progressStore[p].status \in Terminal

\* the cancel route gave the entry its endTime while the task is at its LLM
\* call
C26_Witness ==
  \E p \in DOMAIN progressStore :
    /\ progressStore[p].status = "cancelled"
    /\ progressStore[p].endTime
    /\ task[p].pc = "llm"
    /\ ~task[p].progressItem.endTime

C24_TaskTerminates ==
  /\ (task[1].status = 202) ~>
       (task[1].pc = "ended" /\ task[1].progressItem.status \in Terminal)
  /\ []((task[1].pc = "ended" /\ 1 \in DOMAIN progressStore)
          => progressStore[1].status \in Terminal)

\* the task went through its three stages and ended completed
C24_Witness ==
  /\ task[1].status = 202
  /\ task[1].pc = "ended"
  /\ task[1].progressItem.status = "completed"
  /\ 1 \in DOMAIN progressStore
  /\ progressStore[1].status = "completed"

(***************************************************************************)
(* A fetch that throws inside resolveUsernameToChannelId.                  *)
(***************************************************************************)
\* the requests of the three tiers of the lookup, in the order they are tried
Tiers == <<"forUsername", "searchAt", "search">>
TierOf(what) == CHOOSE t \in 1..3 : Tiers[t] = what
LookupRequests == {Tiers[t] : t \in 1..3}

\* C28: in a registration request, when the fetch of a tier of the handle
\* lookup throws, that fetch is the last one the request issues (no later
\* tier, no channels?id= request), the lookup has answered null, and what the
\* caller of extractChannelId reports is the invalid-URL error, never the
\* thrown one; a non-success status at the first or second tier is followed
\* by the request of the next tier.
C28_ThrowEndsLookup ==
  LET q == req[1]
  IN \A i \in DOMAIN q.answers :
       /\ (q.answers[i] = "throw" /\ q.requests[i] \in LookupRequests) =>
            /\ Len(q.requests) = i
            /\ q.pc \notin {"tier1", "tier2", "tier3", "info"}
            /\ q.extracted = Null
            /\ q.info.kind = "throw" => q.info.message = InvalidUrlMessage
       /\ (q.answers[i] = "status" /\ q.requests[i] \in {"forUsername", "searchAt"}) =>
            /\ Len(q.requests) > i
            /\ q.requests[i + 1] = Tiers[TierOf(q.requests[i]) + 1]
\* the search for "@<username>" threw after the legacy lookup had answered a
\* non-success status, and getChannelInfo has reported the invalid URL
C28_Witness ==
  /\ req[1].answers = <<"status", "throw">>
  /\ req[1].requests = <<"forUsername", "searchAt">>
  /\ req[1].info.kind = "throw"
  /\ req[1].info.message = InvalidUrlMessage
(***************************************************************************)
(* obsidianMCP after start-up.                                             *)
(***************************************************************************)
\* C30: on a server started without OBSIDIAN_API_KEY, or whose connection
\* test did not succeed, obsidianMCP is null in every state in which the
\* routes are registered: no export has sent a PUT or a POST to the vault,
\* and every export that answered with the Markdown answered with the file.
\* No request is served before start-up has ended.
C30_HandleStaysNull ==
  /\ startup.pc # "listening" => \A e \in ExportIds : exports[e] = IdleExport
  /\ (startup.pc = "listening" /\ (~startup.apiKey \/ startup.connect # "ok")) =>
       /\ ~obsidianMCP
       /\ \A e \in ExportIds :
            /\ exports[e].requests = <<>>
            /\ exports[e].answers = <<>>
            /\ \A i \in DOMAIN exports[e].responses :
                 exports[e].responses[i] # "obsidian_direct"
\* the key was set and the connection test threw; two exports of a stored
\* summary were then asked for and both were answered with the file
C30_Witness ==
  /\ startup = [pc |-> "listening", apiKey |-> TRUE, connect |-> "throw"]
  /\ \A e \in ExportIds : exports[e].found /\ exports[e].responses = <<"download">>
====
